---------------------------- MODULE Spec2Model ----------------------------
(***************************************************************************)
(* A model of hw5/radon.py: the Radon operator (radon), the filtered       *)
(* backprojection operator (fbp), the ramp filter (rampfilter), the        *)
(* operator factory (get_operators) and the adjointness test               *)
(* (test_adjoint).                                                         *)
(*                                                                         *)
(* Tensors are records [shape, data] with the data in row-major order, as  *)
(* torch lays a contiguous tensor out, so that reshape/view reinterpret    *)
(* the same flat data.  Real numbers are fixed-point integers in units of  *)
(* 1/FP (the code computes in float32/float64; the model rounds at 1/FP    *)
(* instead of at the float's last bit).  A failed call is a record         *)
(* [err |-> <exception>].                                                  *)
(***************************************************************************)
EXTENDS Integers, Sequences, FiniteSets, TLC

(***************************************************************************)
(* Bounds of the model.                                                    *)
(***************************************************************************)
MaxAngles == 2       \* n_angles ranges over 1..MaxAngles
MaxSize == 3         \* image_size ranges over 1..MaxSize
MaxBatch == 1        \* batch sizes range over 1..MaxBatch
MaxSeed == 6         \* test_adjoint draws x and y from MaxSeed tensors each
MaxHalfSize == 128   \* rampfilter is applied to the sizes 2, 4, .., 2*MaxHalfSize
MaxDet == 100        \* the padding is computed for det_count in 1..MaxDet
FP == 1000           \* fixed-point units per 1.0

(***************************************************************************)
(* Arithmetic.                                                             *)
(***************************************************************************)
Abs(x) == IF x < 0 THEN -x ELSE x

Min(a, b) == IF a <= b THEN a ELSE b

Max(a, b) == IF a >= b THEN a ELSE b

RECURSIVE Pow2(_)
Pow2(k) == IF k = 0 THEN 1 ELSE 2 * Pow2(k - 1)

\* floor(log2(x)) for x >= 1
RECURSIVE FloorLog2(_)
FloorLog2(x) == IF x <= 1 THEN 0 ELSE 1 + FloorLog2(x \div 2)

\* ceil(a / b) for b > 0
CeilDiv(a, b) == -((-a) \div b)

\* s[lo] + ... + s[hi]
RECURSIVE SumRange(_, _, _)
SumRange(s, lo, hi) ==
    IF lo > hi THEN 0
    ELSE IF lo = hi THEN s[lo]
    ELSE LET mid == (lo + hi) \div 2
         IN SumRange(s, lo, mid) + SumRange(s, mid + 1, hi)

SumSeq(s) == SumRange(s, 1, Len(s))

RECURSIVE ProdFrom(_, _)
ProdFrom(s, i) == IF i > Len(s) THEN 1 ELSE s[i] * ProdFrom(s, i + 1)

Prod(s) == ProdFrom(s, 1)

\* np.pi
PiFP == (355 * FP) \div 113

\* cos(p*pi/q) for 0 <= p <= q, by the Taylor series on [0, pi/2] and
\* cos(pi - x) = -cos(x)
CosTaylor(x) ==
    LET t == (x * x) \div FP
        t1 == (FP * t) \div (FP * 2)
        t2 == (t1 * t) \div (FP * 12)
        t3 == (t2 * t) \div (FP * 30)
        t4 == (t3 * t) \div (FP * 56)
        t5 == (t4 * t) \div (FP * 90)
    IN FP - t1 + t2 - t3 + t4 - t5

CosQ(p, q) ==
    IF 2 * p = q THEN 0
    ELSE IF 2 * p > q THEN -CosTaylor(((q - p) * PiFP) \div q)
    ELSE CosTaylor((p * PiFP) \div q)

\* sin(p*pi/q) = cos(pi/2 - p*pi/q) for 0 <= p <= q
SinQ(p, q) == CosQ(Abs(q - 2 * p), 2 * q)

(***************************************************************************)
(* Tensors.                                                                *)
(***************************************************************************)
IsErr(t) == "err" \in DOMAIN t

\* the function f on 1..n as a sequence of values (computed once)
Values(f) == f \o <<>>

Err(e) == [err |-> e]

Numel(shape) == Prod(shape)

Stride(shape, m) == ProdFrom(shape, m + 1)

Strides(shape) == [m \in 1..Len(shape) |-> Stride(shape, m)]

\* the indices (0-based) of the element at flat offset k (0-based), given
\* the strides of the shape
UnravelBy(k, shape, strides) ==
    [m \in 1..Len(shape) |-> (k \div strides[m]) % shape[m]]

Unravel(k, shape) == UnravelBy(k, shape, Strides(shape))

\* the flat offset (0-based) of the element at indices idx
RECURSIVE RavelFrom(_, _, _, _)
RavelFrom(idx, shape, m, acc) ==
    IF m > Len(shape) THEN acc
    ELSE RavelFrom(idx, shape, m + 1, acc * shape[m] + idx[m])

Ravel(idx, shape) == RavelFrom(idx, shape, 1, 0)

At(t, idx) == t.data[Ravel(idx, t.shape) + 1]

\* torch.Tensor.reshape / view on a contiguous tensor
Reshape(t, shape) ==
    IF Numel(shape) = Numel(t.shape)
    THEN [shape |-> shape, data |-> t.data]
    ELSE Err("RuntimeError: shape is invalid for input size")

\* torch.Tensor.repeat(k, 1, ..., 1)
Repeat0(t, k) ==
    LET n == Numel(t.shape)
    IN [shape |-> [t.shape EXCEPT ![1] = k * t.shape[1]],
        data |-> Values([i \in 1..(k * n) |-> t.data[((i - 1) % n) + 1]])]

\* torch.Tensor.sum(d), d a 0-based dimension
SumDim(t, d) ==
    LET r == Len(t.shape)
        outShape == [m \in 1..(r - 1) |->
                        IF m <= d THEN t.shape[m] ELSE t.shape[m + 1]]
        Src(idx, q) == [m \in 1..r |->
                          IF m <= d THEN idx[m]
                          ELSE IF m = d + 1 THEN q ELSE idx[m - 1]]
        st == Strides(outShape)
    IN [shape |-> outShape,
        data |-> Values([k \in 1..Numel(outShape) |->
                    SumSeq([q \in 1..t.shape[d + 1] |->
                              At(t, Src(UnravelBy(k - 1, outShape, st), q - 1))])])]

\* torch.Tensor.permute(perm), perm 0-based
Permute(t, perm) ==
    LET r == Len(t.shape)
        outShape == [m \in 1..r |-> t.shape[perm[m] + 1]]
        Src(idx) == [m \in 1..r |->
                       idx[CHOOSE j \in 1..r : perm[j] + 1 = m]]
        st == Strides(outShape)
    IN [shape |-> outShape,
        data |-> Values([k \in 1..Numel(outShape) |->
                    At(t, Src(UnravelBy(k - 1, outShape, st)))])]

\* elementwise map
MapT(t, F(_)) ==
    [shape |-> t.shape,
     data |-> Values([k \in 1..Len(t.data) |-> F(t.data[k])])]


\* the tensor of the given shape whose element at indices idx is F(idx)
MkTensor(shape, F(_)) ==
    LET st == Strides(shape)
    IN [shape |-> shape,
        data |-> Values([k \in 1..Numel(shape) |->
                           F(UnravelBy(k - 1, shape, st))])]

(***************************************************************************)
(* rampfilter(size).  The real-space response f is held exactly: entry     *)
(* [q, n] stands for q/4 - (n = 0 ? 0 : 1/(pi*n)^2).  The returned kernel  *)
(* 2*Re(DFT(f)) is held by f; Kernel gives its entries, and multiplying a  *)
(* spectrum by it is circular convolution with f[m] + f[-m] (FilterTap).   *)
(* size is even, as every padded size the constructor passes is.           *)
(***************************************************************************)
\* np.arange(start, stop, step, dtype=int)
Arange(start, stop, step) ==
    LET len == IF step > 0 THEN CeilDiv(stop - start, step)
               ELSE CeilDiv(start - stop, -step)
    IN [i \in 1..Max(0, len) |-> start + (i - 1) * step]

\* the index array with its second half ascending too
RampIndexAscending(size) ==
    Arange(1, (size \div 2) + 1, 2) \o Arange(1, size \div 2, 2)


RampIndex(size) ==
    Arange(1, (size \div 2) + 1, 2) \o Arange((size \div 2) - 1, 0, -2)

rampfilter(size) ==
    LET n == RampIndex(size)
        slots == size \div 2          \* the entries of f[1::2]
    IN IF Len(n) = slots \/ Len(n) = 1
       THEN [f |-> Values([i \in 1..size |->
                      IF i = 1 THEN [q |-> 1, n |-> 0]
                      ELSE IF i % 2 = 0
                           THEN [q |-> 0,
                                 n |-> IF Len(n) = 1 THEN n[1] ELSE n[i \div 2]]
                           ELSE [q |-> 0, n |-> 0]])]
       ELSE Err("ValueError: could not broadcast input array")

\* 1/pi^2
InvPi2 == (FP * FP * FP) \div (PiFP * PiFP)

\* the value of an entry of f
FVal(e) == (e.q * FP) \div 4 - (IF e.n = 0 THEN 0 ELSE InvPi2 \div (e.n * e.n))

\* kernel[k] = 2 * Re(DFT(f))[k] = 2 * sum_m f[m] cos(2 pi k m / size)
Kernel(f, k) ==
    LET size == Len(f)
        C(j) == IF 2 * j > size THEN CosQ(2 * size - 2 * j, size)
                ELSE CosQ(2 * j, size)
    IN 2 * SumSeq([m \in 1..size |->
                     (FVal(f[m]) * C((k * (m - 1)) % size)) \div FP])

\* ifft(2*Re(fft(f)))[m] = f[m] + f[-m mod size]
FilterTap(f, m) ==
    LET size == Len(f)
    IN FVal(f[(m % size) + 1]) + FVal(f[((size - m) % size) + 1])

(***************************************************************************)
(* torch.linspace, affine_grid and grid_sample.                            *)
(***************************************************************************)
\* torch.linspace(start, end, steps)[i], i 0-based
Linspace(start, end, steps, i) ==
    IF steps = 1 THEN start
    ELSE LET step == (end - start) \div (steps - 1)
         IN IF i < steps \div 2 THEN start + i * step
            ELSE end - (steps - 1 - i) * step

\* affine_grid's base coordinates with align_corners=True
LinspaceFromNegOne(steps, i) ==
    IF steps <= 1 THEN 0 ELSE Linspace(-FP, FP, steps, i)

\* torch.nn.functional.affine_grid(theta, [N, 1, H, W], align_corners=True)
\* for theta[a] = ((cos, sin, 0), (-sin, cos, 0)) at angle a*pi/N
AffineGrid(N, H, W) ==
    MkTensor(<<N, H, W, 2>>,
             LAMBDA idx :
                LET x == LinspaceFromNegOne(W, idx[3])
                    y == LinspaceFromNegOne(H, idx[2])
                    c == CosQ(idx[1], N)
                    s == SinQ(idx[1], N)
                IN IF idx[4] = 0 THEN (c * x + s * y) \div FP
                   ELSE ((-s) * x + c * y) \div FP)

\* the pixel (y, x) of channel c of item b, zero outside the image
Pixel(input, b, c, y, x) ==
    IF y < 0 \/ y >= input.shape[3] \/ x < 0 \/ x >= input.shape[4] THEN 0
    ELSE At(input, <<b, c, y, x>>)

\* bilinear interpolation at the normalized point (gx, gy),
\* align_corners=True, padding_mode='zeros'
Bilinear(input, b, c, gx, gy) ==
    LET ix == ((gx + FP) * (input.shape[4] - 1)) \div 2
        iy == ((gy + FP) * (input.shape[3] - 1)) \div 2
        x0 == ix \div FP
        y0 == iy \div FP
        fx == ix - x0 * FP
        fy == iy - y0 * FP
        top == (Pixel(input, b, c, y0, x0) * (FP - fx)
                + Pixel(input, b, c, y0, x0 + 1) * fx) \div FP
        bot == (Pixel(input, b, c, y0 + 1, x0) * (FP - fx)
                + Pixel(input, b, c, y0 + 1, x0 + 1) * fx) \div FP
    IN (top * (FP - fy) + bot * fy) \div FP

\* torch.nn.functional.grid_sample(input, grid, mode='bilinear',
\* padding_mode='zeros', align_corners=True)
GridSample(input, grid) ==
    IF Len(input.shape) # 4 \/ Len(grid.shape) # 4
    THEN Err("RuntimeError: grid_sample expects 4-D input and grid")
    ELSE IF input.shape[1] # grid.shape[1] \/ grid.shape[4] # 2
    THEN Err("RuntimeError: grid and input batch sizes differ")
    ELSE MkTensor(<<input.shape[1], input.shape[2], grid.shape[2], grid.shape[3]>>,
                  LAMBDA idx :
                     Bilinear(input, idx[1], idx[2],
                              At(grid, <<idx[1], idx[3], idx[4], 0>>),
                              At(grid, <<idx[1], idx[3], idx[4], 1>>)))

(***************************************************************************)
(* class radon.                                                            *)
(***************************************************************************)
\* radon.__init__(n_angles, image_size)
RadonInit(n_angles, image_size) ==
    [n_angles |-> n_angles,
     image_size |-> image_size,
     rotated |-> Reshape(AffineGrid(n_angles, image_size, image_size),
                         <<1, n_angles * image_size, image_size, 2>>)]

\* radon.forward without the final permute(0, 1, 3, 2)
RadonOutUnpermuted(self, image) ==
    LET bsz == image.shape[1]
        shape_size == image.shape[3]
        sampled == GridSample(image, Repeat0(self.rotated, bsz))
        out_fl == IF IsErr(sampled) THEN sampled
                  ELSE Reshape(sampled,
                               <<bsz, 1, self.n_angles, shape_size, shape_size>>)
    IN IF IsErr(out_fl) THEN out_fl ELSE SumDim(out_fl, 3)

\* the sinogram radon.forward computes
RadonOut(self, image) ==
    LET bsz == image.shape[1]
        shape_size == image.shape[3]
        sampled == GridSample(image, Repeat0(self.rotated, bsz))
        out_fl == IF IsErr(sampled) THEN sampled
                  ELSE Reshape(sampled,
                               <<bsz, 1, self.n_angles, shape_size, shape_size>>)
    IN IF IsErr(out_fl) THEN out_fl
       ELSE Permute(SumDim(out_fl, 3), <<0, 1, 3, 2>>)

\* radon.forward(image): the operator and the argument as the call leaves
\* them, and what it returns
RadonForward(self, image) ==
    [self |-> self, arg |-> image, ret |-> RadonOut(self, image)]

(***************************************************************************)
(* class fbp.                                                              *)
(***************************************************************************)
\* torch.Tensor.float() of an integer: round to 24 significant bits, ties
\* to even
Float32(x) ==
    LET e == FloorLog2(x)
    IN IF e < 24 THEN x
       ELSE LET q == Pow2(e - 23)
                lo == (x \div q) * q
                r == x - lo
            IN IF 2 * r < q THEN lo
               ELSE IF 2 * r > q THEN lo + q
               ELSE IF (lo \div q) % 2 = 0 THEN lo ELSE lo + q

\* ceil(log2(v)) for v >= 1
CeilLog2(v) == IF v = Pow2(FloorLog2(v)) THEN FloorLog2(v) ELSE FloorLog2(v) + 1

\* max(64, int(2 ** (2 * torch.tensor(det_count)).float().log2().ceil()))
PaddedSize(det_count) == Max(64, Pow2(CeilLog2(Float32(2 * det_count))))

\* the mask with < 1 in place of <= 1
ReconstructionCircleStrict(image_size) ==
    MkTensor(<<image_size, image_size>>,
             LAMBDA idx :
                LET grid_y == Linspace(-FP, FP, image_size, idx[1])
                    grid_x == Linspace(-FP, FP, image_size, idx[2])
                IN IF grid_x * grid_x + grid_y * grid_y < FP * FP THEN 1 ELSE 0)

\* (grid_x ** 2 + grid_y ** 2) <= 1 on meshgrid(linspace(-1,1,H), linspace(-1,1,H))
ReconstructionCircle(image_size) ==
    MkTensor(<<image_size, image_size>>,
             LAMBDA idx :
                LET grid_y == Linspace(-FP, FP, image_size, idx[1])
                    grid_x == Linspace(-FP, FP, image_size, idx[2])
                IN IF grid_x * grid_x + grid_y * grid_y <= FP * FP THEN 1 ELSE 0)

\* cat((y, tgrid), -1).view(n_angles * image_size, image_size, 2)[None]
BackwardGrid(n_angles, image_size) ==
    Reshape(MkTensor(<<n_angles, image_size, image_size, 2>>,
                     LAMBDA idx :
                        LET grid_y == Linspace(-FP, FP, image_size, idx[2])
                            grid_x == Linspace(-FP, FP, image_size, idx[3])
                            c == CosQ(idx[1], n_angles)
                            s == SinQ(idx[1], n_angles)
                        IN IF idx[4] = 0
                           THEN Linspace(-FP, FP, n_angles, idx[1])
                           ELSE (grid_x * c - grid_y * s) \div FP),
            <<1, n_angles * image_size, image_size, 2>>)

\* fbp.__init__(n_angles, image_size, circle, filtered)
FbpInit(n_angles, image_size, circle, filtered) ==
    LET det_count == image_size
        projection_size_padded == PaddedSize(det_count)
    IN [image_size |-> image_size,
        step_size |-> (image_size * FP) \div det_count,
        n_angles |-> n_angles,
        circle |-> circle,
        filtered |-> filtered,
        pad_width |-> projection_size_padded - det_count,
        filter |-> rampfilter(projection_size_padded),
        grid |-> BackwardGrid(n_angles, image_size),
        reconstruction_circle |-> ReconstructionCircle(image_size)]

\* the padding with value=1 in place of value=0
PadDetectorOnes(input, pad_width) ==
    MkTensor([input.shape EXCEPT ![3] = input.shape[3] + pad_width],
             LAMBDA idx : IF idx[3] < input.shape[3] THEN At(input, idx) ELSE FP)

\* torch.nn.functional.pad(input, [0, 0, 0, pad_width], value=0)
PadDetector(input, pad_width) ==
    MkTensor([input.shape EXCEPT ![3] = input.shape[3] + pad_width],
             LAMBDA idx : IF idx[3] < input.shape[3] THEN At(input, idx) ELSE 0)

\* real(ifft(fft(padded_input, dim=2) * filter[:, None], dim=2))[:, :, :det_count, :]
\* pad_width >= 32, so the padded axis is never of length 1 and broadcasts
\* against the kernel only when the lengths agree
ApplyFilter(padded_input, filter, det_count) ==
    LET L == padded_input.shape[3]
        tap == Values([m \in 1..(2 * L) |-> FilterTap(filter.f, m)])
    IN IF L # Len(filter.f)
       THEN Err("RuntimeError: the size of tensor a must match the size of tensor b")
       ELSE MkTensor([padded_input.shape EXCEPT ![3] = det_count],
                     LAMBDA idx :
                        SumSeq([d \in 1..L |->
                           LET v == At(padded_input, [idx EXCEPT ![3] = d - 1])
                           IN IF v = 0 THEN 0
                              ELSE v * tap[idx[3] - (d - 1) + L]])
                        \div FP)

\* reconstructed[reconstructed_circle == 0] = 0.
MaskCircle(reconstructed, reconstructed_circle) ==
    IF reconstructed_circle.shape # reconstructed.shape
    THEN Err("IndexError: the shape of the mask does not match the indexed tensor")
    ELSE [shape |-> reconstructed.shape,
          data |-> Values([k \in 1..Len(reconstructed.data) |->
                             IF reconstructed_circle.data[k] = 0 THEN 0
                             ELSE reconstructed.data[k]])]

\* the image fbp.forward computes
FbpOut(self, input) ==
    LET bsz == input.shape[1]
        det_count == input.shape[3]
        radon_filtered ==
            IF self.filtered
            THEN ApplyFilter(PadDetector(input, self.pad_width), self.filter,
                             det_count)
            ELSE input
        sampled == IF IsErr(radon_filtered) THEN radon_filtered
                   ELSE GridSample(radon_filtered, Repeat0(self.grid, bsz))
        viewed == IF IsErr(sampled) THEN sampled
                  ELSE Reshape(sampled, <<bsz, self.n_angles, 1,
                                          self.image_size, self.image_size>>)
        summed == IF IsErr(viewed) THEN viewed
                  ELSE MapT(SumDim(viewed, 1),
                            LAMBDA v : (v * FP) \div self.step_size)
        masked == IF IsErr(summed) \/ ~self.circle THEN summed
                  ELSE MaskCircle(summed,
                                  Repeat0(Reshape(self.reconstruction_circle,
                                                  <<1, 1, self.image_size,
                                                    self.image_size>>), bsz))
    IN IF IsErr(masked) THEN masked
       ELSE MapT(masked, LAMBDA v : (v * PiFP) \div (2 * self.n_angles * FP))

\* fbp.forward storing the repeated mask back:
\* self.reconstruction_circle = self.reconstruction_circle.repeat(bsz,1,1,1)
FbpForwardKeepsMask(self, input) ==
    [self |-> IF self.circle
              THEN [self EXCEPT !.reconstruction_circle =
                       Repeat0(Reshape(self.reconstruction_circle,
                                       <<1, 1, self.image_size, self.image_size>>),
                               input.shape[1])]
              ELSE self,
     arg |-> input,
     ret |-> FbpOut(self, input)]

\* fbp.forward(input): the operator and the argument as the call leaves them,
\* and what it returns
FbpForward(self, input) ==
    [self |-> self, arg |-> input, ret |-> FbpOut(self, input)]

(***************************************************************************)
(* get_operators and test_adjoint.                                         *)
(***************************************************************************)
\* the parameters of get_operators(n_angles, image_size, circle, device)
FactoryParams == {"n_angles", "image_size", "circle", "device"}

\* get_operators not passing circle on to fbp
get_operators_default_circle(kw) ==
    IF ~(DOMAIN kw \subseteq FactoryParams)
    THEN Err("TypeError: get_operators() got an unexpected keyword argument")
    ELSE [radon_op |-> RadonInit(kw.n_angles, kw.image_size),
          fbp_op |-> FbpInit(kw.n_angles, kw.image_size, FALSE, TRUE)]

\* get_operators(**kw): the pair it returns, or the TypeError Python raises
\* for a keyword the signature does not have
get_operators(kw) ==
    IF ~(DOMAIN kw \subseteq FactoryParams)
    THEN Err("TypeError: get_operators() got an unexpected keyword argument")
    ELSE [radon_op |-> RadonInit(kw.n_angles, kw.image_size),
          fbp_op |-> FbpInit(kw.n_angles, kw.image_size, kw.circle, TRUE)]

\* torch.sum(a * b)
Dot(a, b) == SumSeq([k \in 1..Len(a.data) |-> (a.data[k] * b.data[k]) \div FP])

\* test_adjoint, for the n_angles and image_size given (50 and 100 in the
\* code) and the tensors x and y that torch.rand drew
test_adjoint(n_angles, image_size, x, y) ==
    LET radon_op == RadonInit(n_angles, image_size)
        fbp_op == FbpInit(n_angles, image_size, FALSE, FALSE)
        leftside == Dot(RadonForward(radon_op, x).ret, y)
        rightside == Dot(x, FbpForward(fbp_op, y).ret)
    IN [n_angles |-> n_angles, image_size |-> image_size, x |-> x, y |-> y,
        leftside |-> leftside, rightside |-> rightside]

(***************************************************************************)
(* The state: the operators the caller holds, the call in progress (its    *)
(* arguments and result, until the caller takes the result), and the       *)
(* results of test_adjoint, rampfilter and the padding computation.        *)
(***************************************************************************)
VARIABLES radon_op, fbp_op, call, adj, ramp, pad

vars == <<radon_op, fbp_op, call, adj, ramp, pad>>

None == [none |-> TRUE]

Idle == [fn |-> "idle"]

\* the input tensors: every single-channel 4-D shape within the bounds, and
\* the 4-channel shapes up to 2x2 (4 channels sampled by a 1x1 operator hold
\* as many values as one 2x2 channel), all zero or with the distinct values
\* 1, 2, 3, ...
Shapes ==
    {<<b, 1, h, w>> : b \in 1..MaxBatch, h \in 1..MaxSize, w \in 1..MaxSize}
    \cup {<<1, 4, h, w>> : h \in 1..2, w \in 1..2}

Patterns == {"zeros", "ramp"}

Input(shape, pattern) ==
    [shape |-> shape,
     data |-> [k \in 1..Numel(shape) |-> IF pattern = "zeros" THEN 0 ELSE k * FP]]

Inputs == {Input(sh, pt) : sh \in Shapes, pt \in Patterns}

\* torch.rand(shape): values in [0, 1)
Rand(shape, seed) ==
    [shape |-> shape,
     data |-> [k \in 1..Numel(shape) |->
                 (((k + 1) * seed) % 7) * (FP \div 8) + (FP \div 16)]]

Init ==
    /\ radon_op = None
    /\ fbp_op = None
    /\ call = Idle
    /\ adj = Idle
    /\ ramp = Idle
    /\ pad = Idle

\* radon_op = radon(n_angles, image_size): the caller works with this
\* operator alone
NewRadon(n_angles, image_size) ==
    /\ call = Idle
    /\ radon_op' = RadonInit(n_angles, image_size)
    /\ fbp_op' = None
    /\ call' = [fn |-> "radon"]
    /\ UNCHANGED <<adj, ramp, pad>>

\* fbp_op = fbp(n_angles, image_size, circle, filtered): the caller works
\* with this operator alone
NewFbp(n_angles, image_size, circle, filtered) ==
    /\ call = Idle
    /\ fbp_op' = FbpInit(n_angles, image_size, circle, filtered)
    /\ radon_op' = None
    /\ call' = [fn |-> "fbp"]
    /\ UNCHANGED <<adj, ramp, pad>>

\* radon_op, fbp_op = get_operators(**kw)
GetOperators(kw) ==
    /\ call = Idle
    /\ LET r == get_operators(kw)
       IN /\ call' = [fn |-> "get_operators", arg |-> kw,
                      ret |-> IF IsErr(r) THEN r ELSE [ok |-> TRUE]]
          /\ radon_op' = IF IsErr(r) THEN radon_op ELSE r.radon_op
          /\ fbp_op' = IF IsErr(r) THEN fbp_op ELSE r.fbp_op
    /\ UNCHANGED <<adj, ramp, pad>>

\* radon_op(image)
RadonCall(image) ==
    /\ call = Idle
    /\ radon_op # None
    /\ LET r == RadonForward(radon_op, image)
       IN /\ radon_op' = r.self
          /\ call' = [fn |-> "radon.forward", arg |-> image, after |-> r.arg,
                      ret |-> r.ret]
    /\ UNCHANGED <<fbp_op, adj, ramp, pad>>

\* fbp_op(input)
FbpCall(input) ==
    /\ call = Idle
    /\ fbp_op # None
    /\ LET r == FbpForward(fbp_op, input)
       IN /\ fbp_op' = r.self
          /\ call' = [fn |-> "fbp.forward", arg |-> input, after |-> r.arg,
                      ret |-> r.ret]
    /\ UNCHANGED <<radon_op, adj, ramp, pad>>

\* the caller takes the result of the call
Return ==
    /\ call # Idle
    /\ call' = Idle
    /\ UNCHANGED <<radon_op, fbp_op, adj, ramp, pad>>

FactoryCalls ==
    LET base == {[n_angles |-> n, image_size |-> h, circle |-> c, device |-> "cpu"] :
                    n \in 1..MaxAngles, h \in 1..MaxSize, c \in BOOLEAN}
    IN base \cup
       {[n_angles |-> k.n_angles, image_size |-> k.image_size,
         circle |-> k.circle, device |-> "cpu", filtered |-> f] :
            k \in base, f \in BOOLEAN}

Next ==
    \/ \E n \in 1..MaxAngles, h \in 1..MaxSize : NewRadon(n, h)
    \/ \E n \in 1..MaxAngles, h \in 1..MaxSize, c \in BOOLEAN, f \in BOOLEAN :
          NewFbp(n, h, c, f)
    \/ \E kw \in FactoryCalls : GetOperators(kw)
    \/ \E image \in Inputs : RadonCall(image)
    \/ \E input \in Inputs : FbpCall(input)
    \/ Return

Spec == Init /\ [][Next]_vars

(***************************************************************************)
(* test_adjoint run on its own: the operators it builds are local to it.   *)
(***************************************************************************)
TestAdjoint(n_angles, image_size, sx, sy) ==
    /\ adj = Idle
    /\ adj' = test_adjoint(n_angles, image_size,
                           Rand(<<1, 1, image_size, image_size>>, sx),
                           Rand(<<1, 1, image_size, n_angles>>, sy))
    /\ UNCHANGED <<radon_op, fbp_op, call, ramp, pad>>

AdjointReturn ==
    /\ adj # Idle
    /\ adj' = Idle
    /\ UNCHANGED <<radon_op, fbp_op, call, ramp, pad>>

NextAdjoint ==
    \/ \E n \in 1..MaxAngles, h \in 1..MaxSize, sx \in 1..MaxSeed, sy \in 1..MaxSeed :
          TestAdjoint(n, h, sx, sy)
    \/ AdjointReturn

SpecAdjoint == Init /\ [][NextAdjoint]_vars

(***************************************************************************)
(* rampfilter applied to the even sizes up to 2*MaxHalfSize.               *)
(***************************************************************************)
Rampfilter(size) ==
    /\ ramp = Idle
    /\ ramp' = [size |-> size, ret |-> rampfilter(size)]
    /\ UNCHANGED <<radon_op, fbp_op, call, adj, pad>>

RampfilterReturn ==
    /\ ramp # Idle
    /\ ramp' = Idle
    /\ UNCHANGED <<radon_op, fbp_op, call, adj, pad>>

NextRamp ==
    \/ \E h \in 1..MaxHalfSize : Rampfilter(2 * h)
    \/ RampfilterReturn

SpecRamp == Init /\ [][NextRamp]_vars

(***************************************************************************)
(* The padding computed by fbp.__init__ (lines 73-80), for det_count up to *)
(* MaxDet and around 2^24, where 2*det_count has more than 24 bits.  The   *)
(* float32 log2 is exact at the values reached: they are powers of two or  *)
(* lie more than a float32 ulp away from one, or round to one from below.  *)
(***************************************************************************)
DetCounts == (1..MaxDet) \cup {Pow2(24) - 1, Pow2(24), Pow2(24) + 1}

FbpPadding(image_size) ==
    /\ pad = Idle
    /\ LET det_count == image_size
           projection_size_padded == PaddedSize(det_count)
       IN pad' = [image_size |-> image_size,
                  projection_size_padded |-> projection_size_padded,
                  pad_width |-> projection_size_padded - det_count]
    /\ UNCHANGED <<radon_op, fbp_op, call, adj, ramp>>

PaddingReturn ==
    /\ pad # Idle
    /\ pad' = Idle
    /\ UNCHANGED <<radon_op, fbp_op, call, adj, ramp>>

NextPadding ==
    \/ \E h \in DetCounts : FbpPadding(h)
    \/ PaddingReturn

SpecPadding == Init /\ [][NextPadding]_vars

(***************************************************************************)
(* The claims.                                                             *)
(***************************************************************************)
AllZero(t) == \A k \in 1..Len(t.data) : t.data[k] = 0

\* an image batch x 1 x H x H for the operator's image_size H
WellFormedImage(image, op) ==
    /\ image.shape[2] = 1
    /\ image.shape[3] = op.image_size
    /\ image.shape[4] = op.image_size

\* a sinogram batch x 1 x H x n_angles for the operator's H and n_angles
WellFormedSinogram(input, op) ==
    /\ input.shape[2] = 1
    /\ input.shape[3] = op.image_size
    /\ input.shape[4] = op.n_angles

\* C1: with the unfiltered fbp operator built from the same (n_angles,
\* image_size), sum(radon(x) * y) / sum(x * fbp(y)) is 1.0 within the
\* tolerance (checked with 1e-2, the looser of the two the claim names)
C1_Adjoint ==
    adj # Idle =>
        /\ adj.rightside # 0
        /\ Abs(adj.leftside - adj.rightside) * 100 <= Abs(adj.rightside)

\* C2: radon.forward maps batch x 1 x H x H to batch x 1 x H x n_angles and
\* fbp.forward maps batch x 1 x H x n_angles to batch x 1 x H x H, in every
\* mode
C2_Shapes ==
    /\ (call.fn = "radon.forward" /\ WellFormedImage(call.arg, radon_op)) =>
          /\ ~IsErr(call.ret)
          /\ call.ret.shape = <<call.arg.shape[1], 1, radon_op.image_size,
                                radon_op.n_angles>>
          /\ Len(call.ret.data) = Numel(call.ret.shape)
    /\ (call.fn = "fbp.forward" /\ WellFormedSinogram(call.arg, fbp_op)) =>
          /\ ~IsErr(call.ret)
          /\ call.ret.shape = <<call.arg.shape[1], 1, fbp_op.image_size,
                                fbp_op.image_size>>
          /\ Len(call.ret.data) = Numel(call.ret.shape)

C2_Witness ==
    /\ call.fn = "radon.forward"
    /\ WellFormedImage(call.arg, radon_op)
    /\ radon_op.image_size = 3
    /\ radon_op.n_angles = 2
    /\ call.ret.shape = <<1, 1, 3, 2>>

\* C3: radon.forward fails on every image that is not square or not
\* single-channel
C3_MalformedImageRejected ==
    (/\ call.fn = "radon.forward"
     /\ \/ call.arg.shape[4] # call.arg.shape[3]
        \/ call.arg.shape[2] # 1) => IsErr(call.ret)

\* C4: fbp.forward fails on every sinogram whose detector axis differs from
\* image_size or whose angle axis differs from n_angles
C4_MismatchedSinogramRejected ==
    (/\ call.fn = "fbp.forward"
     /\ \/ call.arg.shape[3] # fbp_op.image_size
        \/ call.arg.shape[4] # fbp_op.n_angles) => IsErr(call.ret)

\* C5, as claimed: the factory builds the pair from (n_angles, image_size,
\* circle, filtered), and the fbp operator's mode is the requested one
C5_FactoryHonoursFiltered ==
    (call.fn = "get_operators" /\ "filtered" \in DOMAIN call.arg) =>
        /\ ~IsErr(call.ret)
        /\ radon_op.n_angles = call.arg.n_angles
        /\ radon_op.image_size = call.arg.image_size
        /\ fbp_op.n_angles = call.arg.n_angles
        /\ fbp_op.image_size = call.arg.image_size
        /\ fbp_op.circle = call.arg.circle
        /\ fbp_op.filtered = call.arg.filtered

\* C5, amended: the factory builds the pair from (n_angles, image_size,
\* circle) with the requested n_angles, image_size and circle policy; it
\* takes no filtered argument (passing one fails with a TypeError) and the
\* fbp operator it returns is always filtered; no forward call and no
\* returning call changes an operator's mode
C5_FactoryPair ==
    /\ [](call.fn = "get_operators" =>
            IF "filtered" \in DOMAIN call.arg
            THEN IsErr(call.ret)
            ELSE /\ ~IsErr(call.ret)
                 /\ radon_op.n_angles = call.arg.n_angles
                 /\ radon_op.image_size = call.arg.image_size
                 /\ fbp_op.n_angles = call.arg.n_angles
                 /\ fbp_op.image_size = call.arg.image_size
                 /\ fbp_op.circle = call.arg.circle
                 /\ fbp_op.filtered)
    /\ [][(fbp_op # None /\ call'.fn \in {"radon.forward", "fbp.forward", "idle"}) =>
             (fbp_op' # None /\ fbp_op'.filtered = fbp_op.filtered)]_vars

C5_Witness ==
    /\ call.fn = "get_operators"
    /\ ~IsErr(call.ret)
    /\ call.arg.circle
    /\ fbp_op.circle
    /\ fbp_op.filtered
    /\ fbp_op.image_size = 3

\* the pixel (i, j) of an H x H image lies outside the unit circle:
\* x = -1 + 2j/(H-1), y = -1 + 2i/(H-1), x^2 + y^2 > 1 (for H = 1 the one
\* pixel is at linspace(-1, 1, 1) = -1)
OutsideCircle(i, j, H) ==
    IF H = 1 THEN TRUE
    ELSE (2 * j - (H - 1)) * (2 * j - (H - 1))
         + (2 * i - (H - 1)) * (2 * i - (H - 1)) > (H - 1) * (H - 1)

\* C6: with circle=True every returned pixel outside the unit circle is
\* exactly zero, and every other pixel is what the operator without the
\* circle computes
C6_CircleMasked ==
    (call.fn = "fbp.forward" /\ fbp_op.circle /\ ~IsErr(call.ret)) =>
        LET H == fbp_op.image_size
            plain == FbpOut([fbp_op EXCEPT !.circle = FALSE], call.arg)
        IN \A b \in 0..(call.ret.shape[1] - 1), i \in 0..(H - 1), j \in 0..(H - 1) :
              IF OutsideCircle(i, j, H)
              THEN At(call.ret, <<b, 0, i, j>>) = 0
              ELSE At(call.ret, <<b, 0, i, j>>) = At(plain, <<b, 0, i, j>>)

C6_Witness ==
    /\ call.fn = "fbp.forward"
    /\ fbp_op.circle
    /\ fbp_op.filtered
    /\ fbp_op.image_size = 3
    /\ ~IsErr(call.ret)
    /\ At(call.ret, <<0, 0, 0, 0>>) = 0
    /\ At(FbpOut([fbp_op EXCEPT !.circle = FALSE], call.arg), <<0, 0, 0, 0>>) # 0
    /\ At(call.ret, <<0, 0, 0, 1>>) # 0

\* C7: an all-zero image gives an all-zero sinogram and an all-zero sinogram
\* gives an all-zero image, filtered or not, with the circle or without
C7_ZeroToZero ==
    /\ (/\ call.fn = "radon.forward"
        /\ WellFormedImage(call.arg, radon_op)
        /\ AllZero(call.arg)) => (~IsErr(call.ret) /\ AllZero(call.ret))
    /\ (/\ call.fn = "fbp.forward"
        /\ WellFormedSinogram(call.arg, fbp_op)
        /\ AllZero(call.arg)) => (~IsErr(call.ret) /\ AllZero(call.ret))

C7_Witness ==
    /\ call.fn = "fbp.forward"
    /\ fbp_op.filtered
    /\ fbp_op.image_size = 3
    /\ WellFormedSinogram(call.arg, fbp_op)
    /\ AllZero(call.arg)
    /\ AllZero(call.ret)

\* C8: a forward call changes neither operator's stored state nor its input
\* tensor, and what it returns is what a freshly constructed operator with
\* the same construction parameters returns for that input
C8_ReadOnly ==
    /\ [][call'.fn \in {"radon.forward", "fbp.forward"} =>
             /\ radon_op' = radon_op
             /\ fbp_op' = fbp_op
             /\ call'.after = call'.arg]_vars
    /\ [](call.fn = "radon.forward" =>
            LET fresh == RadonInit(radon_op.n_angles, radon_op.image_size)
            IN radon_op = fresh /\ call.ret = RadonOut(fresh, call.arg))
    /\ [](call.fn = "fbp.forward" =>
            LET fresh == FbpInit(fbp_op.n_angles, fbp_op.image_size,
                                 fbp_op.circle, fbp_op.filtered)
            IN fbp_op = fresh /\ call.ret = FbpOut(fresh, call.arg))

C8_Witness ==
    /\ call.fn = "fbp.forward"
    /\ radon_op # None
    /\ fbp_op.circle
    /\ fbp_op.filtered
    /\ ~IsErr(call.ret)
    /\ ~AllZero(call.ret)

\* the smallest power of two >= x
RECURSIVE NextPow2From(_, _)
NextPow2From(p, x) == IF p >= x THEN p ELSE NextPow2From(2 * p, x)

\* C9: the padded projection size is max(64, P) for the smallest power of two
\* P >= 2*H, pad_width = padded size - H is non-negative, and H rows padded
\* by pad_width are as many as the padded size
C9_PaddedSize ==
    pad # Idle =>
        /\ pad.projection_size_padded = Max(64, NextPow2From(1, 2 * pad.image_size))
        /\ pad.projection_size_padded >= 2 * pad.image_size
        /\ pad.projection_size_padded % 2 = 0
        /\ pad.pad_width >= 0
        /\ pad.image_size + pad.pad_width = pad.projection_size_padded

IsPow2(x) == x >= 1 /\ x = Pow2(FloorLog2(x))

\* C10: for a power of two size >= 64 the index array n has size/2 entries,
\* the odd integers up to size/2 ascending and then descending from
\* size/2 - 1 to 1; f[0] = 0.25, f[i] = 0 for even i > 0, and for odd i
\* f[i] = f[size - i] = -1/(pi*n)^2 with n = min(i, size - i); the kernel
\* 2*Re(DFT(f)) is symmetric, kernel[k] = kernel[size - k]
C10_RampKernel ==
    (ramp # Idle /\ IsPow2(ramp.size) /\ ramp.size >= 64) =>
        LET size == ramp.size
            n == RampIndex(size)
        IN /\ Len(n) = size \div 2
           /\ \A i \in 1..(size \div 4) :
                 n[i] = 2 * i - 1 /\ n[(size \div 4) + i] = (size \div 2) + 1 - 2 * i
           /\ ~IsErr(ramp.ret)
           /\ Len(ramp.ret.f) = size
           /\ ramp.ret.f[1] = [q |-> 1, n |-> 0]
           /\ \A i \in 1..(size - 1) :
                 /\ i % 2 = 0 => ramp.ret.f[i + 1] = [q |-> 0, n |-> 0]
                 /\ i % 2 = 1 =>
                       /\ ramp.ret.f[i + 1] = [q |-> 0, n |-> Min(i, size - i)]
                       /\ ramp.ret.f[i + 1] = ramp.ret.f[size - i + 1]
           /\ \A k \in 1..(size \div 2) :
                 Kernel(ramp.ret.f, k) = Kernel(ramp.ret.f, size - k)

C10_Witness ==
    /\ ramp # Idle
    /\ ramp.size = 128
    /\ ~IsErr(ramp.ret)
    /\ ramp.ret.f[128] = [q |-> 0, n |-> 1]
    /\ ramp.ret.f[66] = [q |-> 0, n |-> 63]

=============================================================================
